---------------------------- MODULE Spec2Model ----------------------------
(***************************************************************************)
(* docs/examples/conda/README.ipynb: the notebook that defines a Conda     *)
(* environment, trains and serialises a Scikit-Learn model, packs the      *)
(* environment, serves it with the seldonio/mlserver image and sends one   *)
(* inference request.                                                      *)
(*                                                                         *)
(* The state is what the notebook's cells read and write: the files of     *)
(* the example folder, the Conda environments, the kernel (its environment *)
(* and namespace), the container started from the documented docker        *)
(* command, and the HTTP exchange.  One action per code cell, plus the     *)
(* docker command of the markdown cell (typed on a separate terminal) and  *)
(* the container's own steps.  What the external tools do is a             *)
(* nondeterministic choice over their outcomes.                            *)
(***************************************************************************)
EXTENDS Integers, Sequences, FiniteSets, TLC

\* ------------------------------------------------------------------ bounds
\* digits.images is n_samples images of side x side pixels (1797 of 8 x 8 in
\* the real dataset); the model draws the sizes from 2..MaxSamples, 1..MaxSide.
MaxSamples == 3
MaxSide == 2

\* ------------------------------------------------------- static cell content
\* %%writefile environment.yml
EnvironmentYml ==
  [name |-> "old-sklearn",
   dependencies |-> {"python == 3.7", "scikit-learn == 0.20.3",
                     "joblib == 0.13.0", "requests",
                     "pip: mlserver == 0.6.0.dev0",
                     "pip: mlserver-sklearn ==0.6.0.dev0"}]

\* %%writefile model-settings.json
ModelSettingsJson ==
  [name |-> "mnist-svm", implementation |-> "mlserver_sklearn.SKLearnModel"]

\* !conda env create --force -f environment.yml
CondaEnvCreateArgs == [force |-> TRUE, file |-> "environment.yml"]

\* !conda activate old-sklearn
CondaActivateArgs == [name |-> "old-sklearn"]

\* model_file_name = "model.joblib"
model_file_name == "model.joblib"

\* !conda pack --force -n old-sklearn -o old-sklearn.tar.gz
CondaPackArgsOtherName ==
  [force |-> TRUE, name |-> "base", output |-> "old-sklearn.tar.gz"]
CondaPackArgsNoForce ==
  [force |-> FALSE, name |-> "old-sklearn", output |-> "old-sklearn.tar.gz"]
CondaPackArgs ==
  [force |-> TRUE, name |-> "old-sklearn", output |-> "old-sklearn.tar.gz"]

\* docker run -it --rm -v "$PWD":/mnt/models
\*   -e "MLSERVER_ENV_TARBALL=/mnt/models/old-sklearn.tar.gz" -p 8080:8080 ...
DockerRunArgsOtherPort ==
  [volumeTarget |-> <<"mnt", "models">>,
   MLSERVER_ENV_TARBALL |-> <<"mnt", "models", "old-sklearn.tar.gz">>,
   publish |-> [host |-> 8081, container |-> 8080],
   image |-> "seldonio/mlserver:0.6.0.dev0"]
DockerRunArgsOtherMount ==
  [volumeTarget |-> <<"mnt", "model">>,
   MLSERVER_ENV_TARBALL |-> <<"mnt", "models", "old-sklearn.tar.gz">>,
   publish |-> [host |-> 8080, container |-> 8080],
   image |-> "seldonio/mlserver:0.6.0.dev0"]
DockerRunArgs ==
  [volumeTarget |-> <<"mnt", "models">>,
   MLSERVER_ENV_TARBALL |-> <<"mnt", "models", "old-sklearn.tar.gz">>,
   publish |-> [host |-> 8080, container |-> 8080],
   image |-> "seldonio/mlserver:0.6.0.dev0"]

\* endpoint = "http://localhost:8080/v2/models/mnist-svm/infer"
endpointOtherModel ==
  [scheme |-> "http", host |-> "localhost", port |-> 8080,
   path |-> <<"v2", "models", "mnist", "infer">>]
endpoint ==
  [scheme |-> "http", host |-> "localhost", port |-> 8080,
   path |-> <<"v2", "models", "mnist-svm", "infer">>]

\* ------------------------------------------------------------ numpy arrays
\* An ndarray is a shape and a row-major buffer.

\* datasets.load_digits().images: n images of side x side pixels, values 0..16
Pixel(k) == (k * 7) % 17

load_digits_images(n, side) ==
  [shape |-> <<n, side, side>>,
   buf |-> [k \in 1..(n * side * side) |-> Pixel(k)]]

\* len(digits.images)
len(a) == a.shape[1]

\* digits.images.reshape((n_samples, -1)): same buffer, the -1 axis inferred
reshape(a, n) == [shape |-> <<n, Len(a.buf) \div n>>, buf |-> a.buf]

Min(a, b) == IF a < b THEN a ELSE b
Max(a, b) == IF a > b THEN a ELSE b

\* a[lo:hi] on the first axis of a 2-d array (0-based, hi exclusive, clipped)
RowSlice(a, lo, hi) ==
  LET n  == a.shape[1]
      f  == a.shape[2]
      l  == Min(lo, n)
      h  == Max(l, Min(hi, n))
  IN  [shape |-> <<h - l, f>>, buf |-> SubSeq(a.buf, l * f + 1, h * f)]

\* train_test_split(data, digits.target, test_size=0.5, shuffle=False):
\* n_test = ceil(0.5 * n), n_train = n - n_test, the rows kept in order
train_test_split(data) ==
  LET n       == data.shape[1]
      n_test  == (n + 1) \div 2
      n_train == n - n_test
  IN  [X_train |-> RowSlice(data, 0, n_train),
       X_test  |-> RowSlice(data, n_train, n)]

\* x_0.tolist(): nested lists, one per row
tolist(a) ==
  [i \in 1..a.shape[1] |->
     [j \in 1..a.shape[2] |-> a.buf[(i - 1) * a.shape[2] + j]]]

\* The request cell's dictionary.  x_0.shape is a tuple, the rest are lists,
\* strings and dicts.
BuildInferenceRequestNoShape(x_0) ==
  [inputs |-> << [name |-> "predict", datatype |-> "FP32",
                  data |-> tolist(x_0)] >>]
BuildInferenceRequest(x_0) ==
  [inputs |-> << [name |-> "predict", shape |-> [tuple |-> x_0.shape],
                  datatype |-> "FP32", data |-> tolist(x_0)] >>]

\* requests.post(..., json=...): json.dumps turns a tuple into an array like a
\* list, and leaves strings, lists and dicts as they are
JsonInput(inp) ==
  [k \in DOMAIN inp |-> IF k = "shape" THEN inp[k].tuple ELSE inp[k]]

JsonDumps(req) ==
  [inputs |-> [i \in 1..Len(req.inputs) |-> JsonInput(req.inputs[i])]]

\* /v2/models/{name}/infer: the model a path addresses
ModelOfPath(path) ==
  IF Len(path) = 4 /\ path[1] = "v2" /\ path[2] = "models" /\ path[4] = "infer"
  THEN path[3] ELSE ""

\* ------------------------------------------------------------------- paths
\* The example folder, where the notebook's kernel runs, and another
\* directory a terminal may be in.
ExampleDir == <<"docs", "examples", "conda">>
OtherDir == <<"home">>
Dirs == {ExampleDir, OtherDir}
FileNames == {"environment.yml", model_file_name, "old-sklearn.tar.gz",
              "model-settings.json"}
Paths == {d \o <<f>> : d \in Dirs, f \in FileNames}

\* a relative name, resolved against a process's working directory
Abs(cwd, name) == cwd \o <<name>>

IsPrefix(p, q) == Len(p) <= Len(q) /\ SubSeq(q, 1, Len(p)) = p

\* -v host:target: the host path a container path denotes ("" components: none)
ResolveMount(hostDir, target, cpath) ==
  IF IsPrefix(target, cpath)
  THEN hostDir \o SubSeq(cpath, Len(target) + 1, Len(cpath))
  ELSE <<>>

\* ------------------------------------------------------------------- state
VARIABLES
  pc,          \* the code cell the kernel runs next; "awaiting" inside
               \* requests.post; "done"; "halted" after a cell raised
  log,         \* the steps run so far, with what each read and how it ended
  fs,          \* the files: path -> [gen, val]
  envs,        \* the Conda environments: name -> [gen, val]
  kernelEnv,   \* the environment the notebook's kernel process runs in
  classifier,  \* the kernel's variable `classifier`
  X_test,      \* the kernel's variable `X_test`
  container,   \* the container of the documented docker run command
  http,        \* the HTTP requests issued
  sentWhile,   \* the container's status when the request was issued
  response,    \* what requests.post came back with
  prior        \* what the run started from: the files and the environment
               \* an earlier run left (never written)

vars == <<pc, log, fs, envs, kernelEnv, classifier, X_test, container, http,
          sentWhile, response, prior>>

\* gen: "none" (absent), "prev" (left by an earlier run), "run" (this run's).
\* val: what the artifact holds: the name a descriptor declares, the
\* environment a model was serialised in, the generation of a packed or
\* described artifact.
Absent == [gen |-> "none", val |-> ""]
Artifact(gen, val) == [gen |-> gen, val |-> val]

EnvNames == {"base", CondaActivateArgs.name}

UndefinedArray == [defined |-> FALSE, arr |-> [shape |-> <<0, 0>>, buf |-> <<>>]]
UndefinedClassifier == [defined |-> FALSE, fitted |-> FALSE, env |-> "", n |-> 0]

NoContainer ==
  [status |-> "none", cwd |-> <<>>, hostPort |-> 0, tarball |-> <<>>]

\* The document's order of code cells.
DocOrderDumpFirst ==
  <<"writeEnv", "condaEnv", "dump", "train", "pack", "writeSettings", "request">>
DocOrder ==
  <<"writeEnv", "condaEnv", "train", "dump", "pack", "writeSettings", "request">>

IndexOf(c) == CHOOSE i \in 1..Len(DocOrder) : DocOrder[i] = c

\* Run All: the cell after c, "done" after the last
NextCell(c) ==
  IF IndexOf(c) < Len(DocOrder) THEN DocOrder[IndexOf(c) + 1] ELSE "done"

Entry(step, outcome, cause, used) ==
  [step |-> step, outcome |-> outcome, cause |-> cause, used |-> used,
   kernel |-> kernelEnv]

\* A Python cell that raised: the error is displayed and Run All stops.
RaiseContinues(step, used) ==
  /\ pc' = NextCell(step)
  /\ log' = Append(log, Entry(step, "raised", "other", used))
Raise(step, used) ==
  /\ pc' = "halted"
  /\ log' = Append(log, Entry(step, "raised", "other", used))

\* ------------------------------------------------------------------- tools
\* %%writefile name: creates or overwrites the file
WriteFileMagic(fsys, path, val) == [fsys EXCEPT ![path] = Artifact("run", val)]

\* conda env create [--force] -f file: the environment named in the file.
\* Without --force an existing prefix is an error; with it the prefix is
\* removed first.  The outcomes: created; failed before anything changed;
\* failed after the removal.
CondaEnvCreate(args, es, fsys, cwd) ==
  LET yml  == fsys[Abs(cwd, args.file)]
      name == yml.val
  IN  IF yml.gen = "none"
      THEN {[ok |-> FALSE, cause |-> "other", envs |-> es]}
      ELSE IF es[name].gen # "none" /\ ~args.force
      THEN {[ok |-> FALSE, cause |-> "exists", envs |-> es]}
      ELSE {[ok |-> TRUE, cause |-> "",
             envs |-> [es EXCEPT ![name] = Artifact("run", yml.gen)]],
            [ok |-> FALSE, cause |-> "other", envs |-> es],
            [ok |-> FALSE, cause |-> "other",
             envs |-> [es EXCEPT ![name] = Absent]]}

\* !conda activate name: `!` runs the command in a subshell of the kernel, so
\* the kernel process stays in the environment it was started from
BangCondaActivate(kenv, args) == kenv

\* joblib.dump(value, filename): creates or overwrites the file
JoblibDump(fsys, path, clf) == [fsys EXCEPT ![path] = Artifact("run", clf.env)]

\* conda pack [--force] -n name -o output: packs the named environment as it
\* is now.  No such environment is an error; so is an existing output
\* without --force.
CondaPack(args, es, fsys, cwd) ==
  LET out == Abs(cwd, args.output)
  IN  IF es[args.name].gen = "none"
      THEN {[ok |-> FALSE, cause |-> "other", fs |-> fsys]}
      ELSE IF fsys[out].gen # "none" /\ ~args.force
      THEN {[ok |-> FALSE, cause |-> "exists", fs |-> fsys]}
      ELSE {[ok |-> TRUE, cause |-> "",
             fs |-> [fsys EXCEPT ![out] = Artifact("run", es[args.name].gen)]],
            [ok |-> FALSE, cause |-> "other", fs |-> fsys]}

\* -------------------------------------------------------------------- Init
\* A kernel started in the example folder, nothing run yet.  The folder may
\* hold what an earlier run of the notebook left, an old-sklearn environment
\* may exist from before, and the kernel runs in base or, after the restart
\* the notebook's NOTE asks for, in an old-sklearn that already exists.
PrevVal(f) ==
  CASE f = "environment.yml"     -> EnvironmentYml.name
    [] f = "model-settings.json" -> ModelSettingsJson.name
    [] f = model_file_name       -> "base"
    [] OTHER                     -> "prev"

Init ==
  /\ pc = DocOrder[1]
  /\ log = <<>>
  /\ \E left \in SUBSET FileNames, stale \in {Absent, Artifact("prev", "prev")} :
       /\ fs = [p \in Paths |->
                  IF \E f \in left : p = Abs(ExampleDir, f)
                  THEN Artifact("prev", PrevVal(p[Len(p)]))
                  ELSE Absent]
       /\ envs = [e \in EnvNames |->
                    IF e = "base" THEN Artifact("prev", "base") ELSE stale]
       /\ prior = [files |-> left, env |-> stale.gen]
  /\ kernelEnv \in {e \in EnvNames : envs[e].gen # "none"}
  /\ classifier = UndefinedClassifier
  /\ X_test = UndefinedArray
  /\ container = NoContainer
  /\ http = <<>>
  /\ sentWhile = "unsent"
  /\ response = "none"

Done(step, outcome, cause, used) ==
  /\ pc' = NextCell(step)
  /\ log' = Append(log, Entry(step, outcome, cause, used))

\* ----------------------------------------------------------------- actions
\* cell: %%writefile environment.yml
WriteEnvironmentYml ==
  /\ pc = "writeEnv"
  /\ \/ /\ fs' = WriteFileMagic(fs, Abs(ExampleDir, "environment.yml"),
                                EnvironmentYml.name)
        /\ Done("writeEnv", "ok", "", <<>>)
     \/ /\ Raise("writeEnv", <<>>)
        /\ UNCHANGED fs
  /\ UNCHANGED <<envs, kernelEnv, classifier, X_test, container, http,
                 sentWhile, response, prior>>

\* cell: !conda env create --force -f environment.yml
\*       !conda activate old-sklearn
\* A `!` line that exits non-zero prints its output and raises nothing.
CondaEnvCreateAndActivate ==
  /\ pc = "condaEnv"
  /\ \E o \in CondaEnvCreate(CondaEnvCreateArgs, envs, fs, ExampleDir) :
       /\ envs' = o.envs
       /\ kernelEnv' = BangCondaActivate(kernelEnv, CondaActivateArgs)
       /\ Done("condaEnv", IF o.ok THEN "ok" ELSE "failed", o.cause,
               << fs[Abs(ExampleDir, CondaEnvCreateArgs.file)] >>)
  /\ UNCHANGED <<fs, classifier, X_test, container, http, sentWhile, response,
                 prior>>

\* cell: load_digits, reshape, SVC, train_test_split, classifier.fit
Train ==
  /\ pc = "train"
  /\ \/ \E n \in 2..MaxSamples, side \in 1..MaxSide :
          LET images    == load_digits_images(n, side)
              n_samples == len(images)
              data      == reshape(images, n_samples)
              split     == train_test_split(data)
          IN  /\ X_test' = [defined |-> TRUE, arr |-> split.X_test]
              /\ classifier' = [defined |-> TRUE, fitted |-> TRUE,
                                env |-> kernelEnv,
                                n |-> split.X_train.shape[1]]
              /\ Done("train", "ok", "", <<>>)
     \/ /\ Raise("train", <<>>)
        /\ UNCHANGED <<classifier, X_test>>
  /\ UNCHANGED <<fs, envs, kernelEnv, container, http, sentWhile, response,
                 prior>>

\* cell: joblib.dump(classifier, model_file_name)
Dump ==
  /\ pc = "dump"
  /\ LET used == << Artifact(IF classifier.fitted THEN "run" ELSE "none",
                             classifier.env) >>
     IN  \/ /\ classifier.defined
            /\ fs' = JoblibDump(fs, Abs(ExampleDir, model_file_name), classifier)
            /\ Done("dump", "ok", "", used)
         \/ /\ Raise("dump", used)
            /\ UNCHANGED fs
  /\ UNCHANGED <<envs, kernelEnv, classifier, X_test, container, http,
                 sentWhile, response, prior>>

\* cell: !conda pack --force -n old-sklearn -o old-sklearn.tar.gz
Pack ==
  /\ pc = "pack"
  /\ \E o \in CondaPack(CondaPackArgs, envs, fs, ExampleDir) :
       /\ fs' = o.fs
       /\ Done("pack", IF o.ok THEN "ok" ELSE "failed", o.cause,
               << envs[CondaPackArgs.name] >>)
  /\ UNCHANGED <<envs, kernelEnv, classifier, X_test, container, http,
                 sentWhile, response, prior>>

\* cell: %%writefile model-settings.json
WriteModelSettings ==
  /\ pc = "writeSettings"
  /\ \/ /\ fs' = WriteFileMagic(fs, Abs(ExampleDir, "model-settings.json"),
                                ModelSettingsJson.name)
        /\ Done("writeSettings", "ok", "", <<>>)
     \/ /\ Raise("writeSettings", <<>>)
        /\ UNCHANGED fs
  /\ UNCHANGED <<envs, kernelEnv, classifier, X_test, container, http,
                 sentWhile, response, prior>>

\* markdown: docker run -it --rm -v "$PWD":/mnt/models -e ... -p 8080:8080,
\* typed on a separate terminal once model-settings.json is written and
\* before the request cell; no code cell runs it.  "$PWD" is the terminal's
\* directory.  The command may fail at once (no Docker, no image).
DockerAfter == "writeSettings"

DockerRun ==
  /\ pc = NextCell(DockerAfter)
  /\ container.status = "none"
  /\ \E d \in Dirs, st \in {"starting", "exited"} :
       /\ container' =
            [status |-> st, cwd |-> d,
             hostPort |-> DockerRunArgs.publish.host,
             tarball |-> ResolveMount(d, DockerRunArgs.volumeTarget,
                                      DockerRunArgs.MLSERVER_ENV_TARBALL)]
       /\ log' = Append(log,
            Entry("docker", IF st = "starting" THEN "ok" ELSE "failed",
                  IF st = "starting" THEN "" ELSE "other",
                  << fs[Abs(ExampleDir, CondaPackArgs.output)],
                     fs[Abs(ExampleDir, model_file_name)],
                     fs[Abs(ExampleDir, "model-settings.json")] >>))
  /\ UNCHANGED <<pc, fs, envs, kernelEnv, classifier, X_test, http, sentWhile,
                 response, prior>>

\* the server inside the container starts listening
ContainerReady ==
  /\ container.status = "starting"
  /\ container' = [container EXCEPT !.status = "serving"]
  /\ UNCHANGED <<pc, log, fs, envs, kernelEnv, classifier, X_test, http,
                 sentWhile, response, prior>>

\* the container ends (the server fails, or the terminal is closed)
ContainerExit ==
  /\ container.status \in {"starting", "serving"}
  /\ container' = [container EXCEPT !.status = "exited"]
  /\ UNCHANGED <<pc, log, fs, envs, kernelEnv, classifier, X_test, http,
                 sentWhile, response, prior>>

\* whether a request to url reaches the container's server
Reaches(c, url) ==
  /\ c.status = "serving"
  /\ url.host = "localhost"
  /\ url.port = c.hostPort

\* cell: x_0 = X_test[0:1]; inference_request = {...};
\*       response = requests.post(endpoint, json=inference_request)
\* up to the request being issued
PostRequest ==
  /\ pc = "request"
  /\ \/ /\ X_test.defined
        /\ LET x_0 == RowSlice(X_test.arr, 0, 1)
               inference_request == BuildInferenceRequest(x_0)
           IN  http' = Append(http, [method |-> "POST", url |-> endpoint,
                                     body |-> JsonDumps(inference_request)])
        /\ sentWhile' = container.status
        /\ pc' = "awaiting"
        /\ UNCHANGED log
     \/ /\ Raise("request", <<>>)
        /\ UNCHANGED <<http, sentWhile>>
  /\ UNCHANGED <<fs, envs, kernelEnv, classifier, X_test, container, response,
                 prior>>

\* requests.post returns and response.json() is displayed
ReceiveResponse ==
  /\ pc = "awaiting"
  /\ Reaches(container, http[Len(http)].url)
  /\ \E r \in {"result", "error"} : response' = r
  /\ Done("request", "ok", "", <<>>)
  /\ UNCHANGED <<fs, envs, kernelEnv, classifier, X_test, container, http,
                 sentWhile, prior>>

\* requests.post raises ConnectionError: nothing listens on the port
ConnectionErrorRetries ==
  /\ pc = "awaiting"
  /\ ~Reaches(container, http[Len(http)].url)
  /\ response' = "ConnectionError"
  /\ pc' = "request"
  /\ UNCHANGED <<log, fs, envs, kernelEnv, classifier, X_test, container, http,
                 sentWhile, prior>>
ConnectionError ==
  /\ pc = "awaiting"
  /\ ~Reaches(container, http[Len(http)].url)
  /\ response' = "ConnectionError"
  /\ Raise("request", <<>>)
  /\ UNCHANGED <<fs, envs, kernelEnv, classifier, X_test, container, http,
                 sentWhile, prior>>

Next ==
  \/ WriteEnvironmentYml
  \/ CondaEnvCreateAndActivate
  \/ Train
  \/ Dump
  \/ Pack
  \/ WriteModelSettings
  \/ DockerRun
  \/ ContainerReady
  \/ ContainerExit
  \/ PostRequest
  \/ ReceiveResponse
  \/ ConnectionError

Spec == Init /\ [][Next]_vars

\* ------------------------------------------------------------------ claims
Ran(step) == \E i \in DOMAIN log : log[i].step = step
Succeeded(step) == \E i \in DOMAIN log : log[i].step = step /\ log[i].outcome = "ok"
EntriesOf(step) == {i \in DOMAIN log : log[i].step = step}

\* the steps that are executing now: the cell the kernel is inside, and the
\* docker run command while its container lives
Executing ==
  (IF pc = "awaiting" THEN {"request"} ELSE {})
    \cup (IF container.status \in {"starting", "serving"} THEN {"docker"} ELSE {})

ExampleTarball == <<"docs", "examples", "conda", "old-sklearn.tar.gz">>
ExampleSettings == <<"docs", "examples", "conda", "model-settings.json">>
ExampleModel == <<"docs", "examples", "conda", "model.joblib">>

\* C1, as stated: every step reads only what an earlier step of the run
\* produced (environment.yml for conda env create, the environment for conda
\* pack, the fitted classifier for joblib.dump, the three files for the
\* container), and no two steps execute at the same time.
C1_AsStated ==
  /\ \A i \in DOMAIN log :
       /\ log[i].step \in {"condaEnv", "dump", "pack"} => log[i].used[1].gen = "run"
       /\ log[i].step = "docker" => \A k \in 1..3 : log[i].used[k].gen = "run"
  /\ Cardinality(Executing) <= 1

\* C1, amended: the steps run once each in the document's order; the
\* artifacts Python cells produce (environment.yml, the fitted classifier,
\* model.joblib, model-settings.json) are this run's whenever a later step
\* reads them; the environment and the tarball are this run's when a later
\* step reads them provided the `!conda` command that makes them succeeded;
\* code cells never overlap, the only overlap being the container of the
\* docker command, which lives on while the request cell runs.
C1_InDocumentOrder ==
  LET Rank(st) ==
        CASE st = "writeEnv" -> 1 [] st = "condaEnv" -> 2 [] st = "train" -> 3
          [] st = "dump" -> 4 [] st = "pack" -> 5 [] st = "writeSettings" -> 6
          [] st = "docker" -> 7 [] OTHER -> 8
  IN  /\ \A i, j \in DOMAIN log : i < j => Rank(log[i].step) < Rank(log[j].step)
      /\ \A i \in DOMAIN log :
           /\ log[i].step \in {"condaEnv", "dump"} => log[i].used[1].gen = "run"
           /\ log[i].step = "pack" /\ Succeeded("condaEnv")
                => log[i].used[1].gen = "run"
           /\ log[i].step = "docker"
                => /\ log[i].used[2].gen = "run"
                   /\ log[i].used[3].gen = "run"
                   /\ Succeeded("pack") => log[i].used[1].gen = "run"
      /\ Executing \subseteq {"request", "docker"}
      /\ pc = "awaiting" => Ran("writeSettings")

\* C1's case: the container was started after all three files were written
\* and is serving while the request cell is inside requests.post.
C1_Witness ==
  /\ pc = "awaiting"
  /\ container.status = "serving"
  /\ Succeeded("condaEnv") /\ Succeeded("pack")
  /\ \E i \in EntriesOf("docker") : \A k \in 1..3 : log[i].used[k].gen = "run"

\* C2: a run issues at most one HTTP request, every request is a POST to
\* http://localhost:8080/v2/models/mnist-svm/infer, and once the request cell
\* has issued it, whatever came back (a result, an error response, a
\* ConnectionError), exactly one request has been issued.
C2_SinglePost ==
  /\ Len(http) <= 1
  /\ \A i \in DOMAIN http :
       /\ http[i].method = "POST"
       /\ http[i].url = [scheme |-> "http", host |-> "localhost", port |-> 8080,
                         path |-> <<"v2", "models", "mnist-svm", "infer">>]
  /\ (pc \in {"awaiting", "done"} \/ response # "none") => Len(http) = 1
  /\ Len(http) = 1 => pc \in {"awaiting", "done", "halted"}

\* C2's case: the call failed and the request was not sent again.
C2_Witness ==
  /\ response = "ConnectionError"
  /\ pc = "halted"
  /\ Len(http) = 1

\* C3: the body of every request is an object whose `inputs` is an array of
\* one object with exactly the fields name, shape, datatype and data:
\* "predict", the shape (1, n_features) of x_0, "FP32", and the first row of
\* the test half of the dataset as a list of one list.
C3_RequestBody ==
  \A i \in DOMAIN http :
    LET body == http[i].body
        f    == X_test.arr.shape[2]
    IN  /\ DOMAIN body = {"inputs"}
        /\ Len(body.inputs) = 1
        /\ \A k \in DOMAIN body.inputs :
             DOMAIN body.inputs[k] = {"name", "shape", "datatype", "data"}
        /\ body.inputs[1].name = "predict"
        /\ body.inputs[1].datatype = "FP32"
        /\ body.inputs[1].shape = <<1, f>>
        /\ body.inputs[1].data = << [j \in 1..f |-> Pixel(classifier.n * f + j)] >>
        /\ body.inputs[1].data = << SubSeq(X_test.arr.buf, 1, f) >>

\* C3's case: a request for a sample of four features has been issued.
C3_Witness ==
  /\ Len(http) = 1
  /\ http[1].body.inputs[1].shape = <<1, 4>>
  /\ Len(http[1].body.inputs[1].data[1]) = 4

C5_TrainedInOldSklearn ==
  /\ \A i \in DOMAIN log :
       log[i].step \in {"train", "dump"} => log[i].kernel = "old-sklearn"
  /\ fs[ExampleModel].gen = "run" => fs[ExampleModel].val = "old-sklearn"

C7_TarballPath ==
  (container.status # "none" /\ container.cwd = <<"docs", "examples", "conda">>)
    => /\ container.tarball = ExampleTarball
       /\ container.tarball = Abs(ExampleDir, CondaPackArgs.output)
       /\ Succeeded("pack")
            => fs[container.tarball] = Artifact("run", envs[CondaPackArgs.name].gen)

\* C7's case: a serving container started from the example folder, whose
\* tarball is the one this run packed.
C7_Witness ==
  /\ container.status = "serving"
  /\ container.cwd = ExampleDir
  /\ Succeeded("pack")
  /\ fs[container.tarball].gen = "run"

\* C8: whenever a request is issued, the model named in its path is the
\* `name` that this run's model-settings.json declares in the example folder
\* (mnist-svm), the file a container started from that folder sees at
\* /mnt/models/model-settings.json.
C8_ModelName ==
  \A i \in DOMAIN http :
    /\ fs[ExampleSettings].gen = "run"
    /\ ModelOfPath(http[i].url.path) = fs[ExampleSettings].val
    /\ fs[ExampleSettings].val = "mnist-svm"
    /\ container.cwd = ExampleDir
         => ResolveMount(container.cwd, DockerRunArgs.volumeTarget,
                         <<"mnt", "models", "model-settings.json">>)
              = ExampleSettings

\* C8's case: the request was issued to a container serving the example folder.
C8_Witness ==
  /\ Len(http) = 1
  /\ sentWhile = "serving"
  /\ container.cwd = ExampleDir
  /\ ModelOfPath(http[1].url.path) = "mnist-svm"

\* C9, as stated: the tarball this run packs never holds an environment left
\* from before the run: it holds the one created in this run from this run's
\* environment.yml.
C9_AsStated ==
  fs[ExampleTarball].gen = "run"
    => /\ fs[ExampleTarball].val = "run"
       /\ envs["old-sklearn"] = Artifact("run", "run")

\* C9, amended: environment.yml, conda activate and conda pack -n all name
\* old-sklearn; when conda env create --force succeeds it replaces whatever
\* environment of that name existed, and the tarball then packed holds the
\* environment created in this run from this run's environment.yml.  When it
\* fails the notebook still runs conda pack, which packs the stale
\* environment if the failed command left it in place.
C9_PackedWhenCreated ==
  /\ EnvironmentYml.name = "old-sklearn"
  /\ CondaActivateArgs.name = "old-sklearn"
  /\ CondaPackArgs.name = "old-sklearn"
  /\ Succeeded("condaEnv") => envs["old-sklearn"] = Artifact("run", "run")
  /\ (Succeeded("condaEnv") /\ Succeeded("pack"))
       => fs[ExampleTarball] = Artifact("run", "run")
  /\ fs[ExampleTarball] = Artifact("run", "prev")
       => /\ prior.env = "prev"
          /\ Ran("condaEnv") /\ ~Succeeded("condaEnv")

\* C9's case: an environment of that name existed before the run, it was
\* replaced, and the new one was packed.
C9_Witness ==
  /\ prior.env = "prev"
  /\ Succeeded("condaEnv")
  /\ fs[ExampleTarball] = Artifact("run", "run")

\* C10: no step fails because its output already exists, and a run whose six
\* artifact-producing steps all succeed ends with the same artifacts whatever
\* an earlier run had left: the four files and the environment, all this
\* run's.
C10_Rerun ==
  /\ \A i \in DOMAIN log : log[i].cause # "exists"
  /\ (\A st \in {"writeEnv", "condaEnv", "train", "dump", "pack", "writeSettings"} :
        Succeeded(st))
       => /\ fs = [p \in Paths |->
                     CASE p = Abs(ExampleDir, "environment.yml")
                            -> Artifact("run", "old-sklearn")
                       [] p = ExampleModel -> Artifact("run", kernelEnv)
                       [] p = ExampleTarball -> Artifact("run", "run")
                       [] p = ExampleSettings -> Artifact("run", "mnist-svm")
                       [] OTHER -> Absent]
          /\ envs["old-sklearn"] = Artifact("run", "run")

\* C10's case: every artifact and the environment were there from an earlier
\* run, and all six steps succeeded again.
C10_Witness ==
  /\ prior.files = FileNames
  /\ prior.env = "prev"
  /\ \A st \in {"writeEnv", "condaEnv", "train", "dump", "pack", "writeSettings"} :
       Succeeded(st)
=============================================================================
